---- MODULE Spec2Model ----
(***************************************************************************)
(* The chatbot core of danielseah/job-application: class Chatbot           *)
(* (handleIncomingMessage, start, stop) with the messaging adapter that    *)
(* delivers inbound messages to it and carries its replies, and the LLM    *)
(* adapter it calls.                                                       *)
(*                                                                         *)
(* handleIncomingMessage is an async function.  Its body up to the first   *)
(* await runs in one piece (Receive) and every await is a suspension point *)
(* at which other invocations may run: the await of generateResponse       *)
(* (resumed by LLMReturn / LLMThrow) and the awaits of sendMessage         *)
(* (resumed by SendReturn / SendThrow and ApologyReturn / ApologyThrow).   *)
(* The adapters start one invocation per inbound message and do not wait   *)
(* for the previous one (an event-emitter listener in the Telegram and     *)
(* console adapters, a promise that is not awaited in the Twilio adapter), *)
(* so several invocations, of one user or of several, can be in flight.    *)
(* When the promise of an invocation settles, the adapter's continuation   *)
(* (Settle) runs as a microtask, before any other event is handled.        *)
(*                                                                         *)
(* The messaging adapter is one of the four of the repository (Telegram    *)
(* in its default polling mode, Twilio WhatsApp, console, the WhatsApp     *)
(* placeholder); its state is what connect and disconnect change.          *)
(***************************************************************************)
EXTENDS Naturals, Sequences, FiniteSets, TLC

\* ---------------------------------------------------------------- bounds
\* Inbound messages handled in one behaviour, over all users.
MaxMessages == 6
\* Invocations of handleIncomingMessage in flight at once.
MaxInFlight == 2
\* Only the first MaxOverlapping messages of a behaviour may arrive while an
\* earlier invocation is in flight; the later ones arrive with none in flight.
MaxOverlapping == 3
\* start() and stop() are called only before MaxEarly messages have arrived.
MaxEarly == 2
\* Listeners registered with the platform client at once (connect called
\* again without a disconnect).
MaxListeners == 2
\* Direct calls of one method of an adapter (sendMessage, generateResponse,
\* a constructor) in one behaviour.
MaxCalls == 3
\* Invocations after which no further message arrives, where the end of
\* every invocation is followed.
MaxLive == 2

\* ------------------------------------------------------------- constants
\* const maxHistoryLength = 10
maxHistoryLength == 10

\* The platform's users (payload.userId).
Users == {"A", "B"}

\* The two fixed notices of handleIncomingMessage.
FALLBACK_TEXT == "I'm sorry, I couldn't generate a response right now."
APOLOGY_TEXT == "Sorry, I encountered an error. Please try again later."

\* The optional system prompt of a new history.
SYSTEM_PROMPT == [role |-> "system", content |-> "You are a helpful assistant."]

\* The messaging adapters and the LLM adapters of the repository.
AdapterKinds == {"telegram", "twilio", "console", "whatsapp"}
LLMAdapters == {"gemini", "chatgpt"}

\* new MessagingResponse().toString(): the empty TwiML document.
EMPTY_TWIML == "<?xml version=\"1.0\" encoding=\"UTF-8\"?><Response/>"

\* A completion that holds white space only.
BLANK == " "

VARIABLES
    conversationHistories,  \* Chatbot.conversationHistories: userId -> history
    turns,                  \* the invocations of handleIncomingMessage not over yet
    adapter,                \* the messaging adapter: its kind and its fields
    phase,                  \* the last of start() / stop() called (history variable)
    systemPrompt,           \* a new history starts with the system prompt
    llmAdapter,             \* the LLM adapter the core was constructed with
    log,                    \* per user, every entry ever appended (history variable)
    overlapped,             \* users who had two invocations in flight at once
                            \* (history variable)
    acks,                   \* Twilio: what handleWebhookRequest returned, per request
    outbox,                 \* the direct calls of the adapter's sendMessage
    llmCalls,               \* the direct calls of the LLM adapter's generateResponse
    attempts                \* the constructions of messaging adapters attempted

vars == <<conversationHistories, turns, adapter, phase, systemPrompt, llmAdapter,
          log, overlapped, acks, outbox, llmCalls, attempts>>

\* ------------------------------------------------------------- messages
\* The text of the k-th message a user sends: every message has a text of
\* its own, so that entries are told apart by content.
InboundText(userId, k) == userId \o ToString(k)

\* A non-empty completion of the LLM for the turn of the given text.
CompletionText(text) == "re:" \o text

\* What the provider may answer: a text, no text at all, white space only.
ProviderTexts(text) == {CompletionText(text), "", BLANK}

\* String.prototype.trim on the texts above.
Trim(text) == IF text = BLANK THEN "" ELSE text

\* The value generateResponse resolves to for the provider's text: the
\* Gemini adapter returns (text || "").trim(), the ChatGPT adapter
\* content || "".
GenerateResponse(llm, text) == IF llm = "gemini" THEN Trim(text) ELSE text

\* How a call of the provider ends: it fails ("error": network failure,
\* rejection by the provider), it answers without any candidate / choice
\* text ("noText"), or it answers with a text.
ProviderResponses(text) ==
    {[kind |-> "error", text |-> ""], [kind |-> "noText", text |-> ""]}
        \cup {[kind |-> "text", text |-> raw] : raw \in ProviderTexts(text)}

\* generateResponse(messages, options) for the provider's response: the
\* catch block rethrows a failure of the call as a new Error; an answer
\* without text goes through ?. and || "" like an empty text.
Generate(llm, response) ==
    IF response.kind = "error"
    THEN [threw |-> TRUE, value |-> ""]
    ELSE [threw |-> FALSE, value |-> GenerateResponse(llm, response.text)]

\* What generateResponse may resolve to.
Completions(text) == {GenerateResponse(llmAdapter, raw) : raw \in ProviderTexts(text)}

\* if (llmResponseText): the empty string is falsy.
Truthy(text) == text # ""

UserMessage(text) == [role |-> "user", content |-> text]
AssistantMessage(text) == [role |-> "assistant", content |-> text]

\* ------------------------------------------------------- Array.prototype
\* A splice that removes from the end of the array (the newest entries).
SpliceNewest(history, start, deleteCount) ==
    SubSeq(history, 1, Len(history) - deleteCount)

\* array.splice(start, deleteCount) with 0 <= start <= length: removes
\* deleteCount elements from index start on.
Splice(history, start, deleteCount) ==
    LET n == IF deleteCount < 0 THEN 0
             ELSE IF deleteCount > Len(history) - start
                  THEN Len(history) - start ELSE deleteCount
    IN SubSeq(history, 1, start) \o SubSeq(history, start + n + 1, Len(history))

\* ----------------------------------------------------- messaging adapters
\* The adapter after its constructor: the Telegram bot polls from its
\* construction on ({ polling: true } by default), no callback is stored, no
\* listener registered, no readline interface created.
Construct(kind) ==
    [kind |-> kind, onMessage |-> FALSE, listeners |-> 0,
     polling |-> (kind = "telegram"), rl |-> "none"]

\* The credentials the constructor of an adapter requires.
RequiredCredentials(kind) ==
    CASE kind = "telegram" -> {"token"}
      [] kind = "twilio" -> {"accountSid", "authToken", "twilioPhoneNumber"}
      [] OTHER -> {}

\* A credential as given to a constructor: undefined, "", or a value.
CredentialValues == {"absent", "", "set"}

\* !token, !config.accountSid, ...: undefined and "" are falsy.
Missing(value) == value \in {"absent", ""}

\* A Twilio constructor that does not look at twilioPhoneNumber.
ConstructWithLax(kind, credentials) ==
    IF \E name \in RequiredCredentials(kind) \ {"twilioPhoneNumber"} :
          Missing(credentials[name])
    THEN [threw |-> TRUE]
    ELSE [threw |-> FALSE, instance |-> Construct(kind)]

\* new TelegramAdapter(token) / new TwilioWhatsAppAdapter(config): the
\* constructor throws if a required credential is missing, before it creates
\* the platform client; otherwise the adapter is there.
ConstructWith(kind, credentials) ==
    IF \E name \in RequiredCredentials(kind) : Missing(credentials[name])
    THEN [threw |-> TRUE]
    ELSE [threw |-> FALSE, instance |-> Construct(kind)]

\* connect(onMessageCallback): Telegram stores the callback and adds a
\* "message" listener to the bot; Twilio stores the callback; the console
\* adapter stores it and creates a readline interface with a "line" listener
\* (an interface created earlier stays open); the placeholder does nothing.
Connect(a) ==
    CASE a.kind = "telegram" -> [a EXCEPT !.onMessage = TRUE, !.listeners = @ + 1]
      [] a.kind = "twilio" -> [a EXCEPT !.onMessage = TRUE]
      [] a.kind = "console" ->
            [a EXCEPT !.onMessage = TRUE, !.listeners = @ + 1, !.rl = "open"]
      [] OTHER -> a

\* disconnect(): Telegram stops the polling if the bot polls and removes all
\* listeners (the stored callback stays); Twilio clears the callback; the
\* console adapter closes its current readline interface (closing a closed
\* interface does nothing); the placeholder does nothing.
Disconnect(a) ==
    CASE a.kind = "telegram" -> [a EXCEPT !.polling = FALSE, !.listeners = 0]
      [] a.kind = "twilio" -> [a EXCEPT !.onMessage = FALSE]
      [] a.kind = "console" ->
            IF a.rl = "open" THEN [a EXCEPT !.rl = "closed", !.listeners = @ - 1]
            ELSE a
      [] OTHER -> a

\* How many times the callback is invoked for one inbound text message:
\* once per "message" listener while the Telegram bot polls, once by
\* handleWebhookRequest if the Twilio callback is set, once per open readline
\* interface of the console adapter, never by the placeholder.
Deliveries(a) ==
    CASE a.kind = "telegram" ->
            IF a.polling /\ a.onMessage THEN a.listeners ELSE 0
      [] a.kind = "twilio" -> IF a.onMessage THEN 1 ELSE 0
      [] a.kind = "console" -> IF a.onMessage THEN a.listeners ELSE 0
      [] OTHER -> 0

\* The users whose messages the adapter turns into payloads: the console
\* adapter has the one user CONSOLE_USER_ID ("A" here).
PlatformUsers(kind) == IF kind = "console" THEN {"A"} ELSE Users

\* The recipients sendMessage may be called with.
Recipients == Users \cup {"unknown"}

\* How the platform takes a send: Telegram and Twilio reject a recipient they
\* do not know and fail when the transport is down; the console adapter
\* writes to the terminal and knows its one user only; the placeholder calls
\* no platform.
Transports(kind) ==
    IF kind \in {"telegram", "twilio"} THEN {"up", "down"} ELSE {"up"}

PlatformRejects(kind, userId, transport) ==
    CASE kind \in {"telegram", "twilio"} ->
            transport = "down" \/ userId \notin Users
      [] kind = "console" -> userId \notin PlatformUsers(kind)
      [] OTHER -> FALSE

\* sendMessage(userId, text): the Telegram and Twilio adapters rethrow the
\* error of the platform call ("fail"); the console adapter warns about a
\* user it does not know and returns; the placeholder logs and returns.
SendMessage(kind, userId, transport) ==
    CASE kind \in {"telegram", "twilio"} ->
            IF PlatformRejects(kind, userId, transport) THEN "fail" ELSE "ok"
      [] OTHER -> "ok"

\* A rejection nobody catches: the listening ends, nothing is delivered any
\* more.
OnRejectionUncaught(a) ==
    [a EXCEPT !.onMessage = FALSE, !.listeners = 0, !.polling = FALSE]

\* The adapter when the promise of the callback rejects: Telegram and
\* Console await the callback in try / catch, Twilio attaches .catch; the
\* error goes to console.error and the adapter is as it was.
OnRejection(a) == a

\* A handleWebhookRequest that answers only the requests it dispatches.
WebhookResponseDispatchedOnly(registered) ==
    IF registered THEN EMPTY_TWIML ELSE ""

\* What handleWebhookRequest returns, with the callback set or not: in both
\* branches new MessagingResponse().toString().
WebhookResponse(registered) == EMPTY_TWIML

\* ------------------------------------------------- handleIncomingMessage
\* let history = this.conversationHistories.get(payload.userId);
\* if (!history) { history = []; ... }
NewHistory == IF systemPrompt THEN <<SYSTEM_PROMPT>> ELSE <<>>

\* One key for every user.
HistoryKeyShared(userId) == "A"

\* The key under which a user's history is stored: payload.userId.
HistoryKey(userId) == userId

HasHistory(userId) == HistoryKey(userId) \in DOMAIN conversationHistories

GetOrCreate(userId) ==
    IF HasHistory(userId) THEN conversationHistories[HistoryKey(userId)]
    ELSE NewHistory

\* An offset that ignores the system prompt.
SystemPromptOffsetZero(history) == 0

\* The LLMOptions the core is constructed with.
llmOptions == [temperature |-> "0.7", maxTokens |-> 150]

\* const systemPromptOffset = history[0]?.role === "system" ? 1 : 0;
SystemPromptOffset(history) ==
    IF Len(history) > 0 /\ history[1].role = "system" THEN 1 ELSE 0

\* A history that is never cut.
TruncateOff(history) == history

\* if (history.length > maxHistoryLength) history.splice(offset, length - max)
Truncate(history) ==
    IF Len(history) > maxHistoryLength
    THEN Splice(history, SystemPromptOffset(history),
                Len(history) - maxHistoryLength)
    ELSE history

\* history.push({ role: "user", content: payload.text }) and the truncation.
PushUser(history, text) == Truncate(Append(history, UserMessage(text)))

\* A push that puts the assistant entry in front of the history.
PushAssistantFirst(history, text) == <<AssistantMessage(text)>> \o history

\* A non-empty completion that is sent without being pushed.
PushAssistantSkipped(history, text) == history

\* history.push({ role: "assistant", content: llmResponseText })
PushAssistant(history, text) == Append(history, AssistantMessage(text))

\* The history after the first i of the invocations one inbound message
\* starts (one per listener) have pushed their user entry.
RECURSIVE HistoryAfter(_, _, _)
HistoryAfter(history, text, i) ==
    IF i = 0 THEN history
    ELSE PushUser(HistoryAfter(history, text, i - 1), text)

\* ------------------------------------------------------------ invocations
\* An invocation of handleIncomingMessage: its payload (userId, text), the
\* order in which it began (timestamp), where it stands (pc), how
\* generateResponse ended (llm), the history it passed to generateResponse
\* (llmHistory) and the sendMessage calls it has made (sends).
InFlightPcs == {"llm", "send", "apology"}

SettledPcs == {"done", "rejected"}

InFlight == {t \in turns : t.pc \in InFlightPcs}

\* The invocations of a user that have not returned yet.
Pending(userId) == {t \in InFlight : t.userId = userId}

\* A provider that answers the generateResponse calls one at a time, in the
\* order they were made.
LLMSettlesInOrder(t) ==
    /\ t.pc = "llm"
    /\ \A r \in turns : r.pc = "llm" => r.timestamp >= t.timestamp

\* The generateResponse call the invocation awaits may settle: every call
\* is a promise of its own, settled whenever the provider answers it.
LLMSettles(t) == t.pc = "llm"

\* No promise has settled whose continuation is still to run.
MicrotasksDrained == \A t \in turns : t.pc \notin SettledPcs

\* How many invocations a user's messages have started: the user entries of
\* its log.
Received(userId) ==
    Cardinality({i \in 1..Len(log[userId]) : log[userId][i].role = "user"})

TotalReceived == Received("A") + Received("B")

\* A call of messagingAdapter.sendMessage(userId, text), awaited.
Call(userId, text) == [to |-> userId, text |-> text, result |-> "pending"]

\* The awaited call resolves ("ok") or rejects ("fail").
SetLast(sends, result) ==
    [sends EXCEPT ![Len(sends)] = [@ EXCEPT !.result = result]]

\* A store that replaces the whole map by the one entry.
SetHistoryOnly(userId, history) ==
    [k \in {HistoryKey(userId)} |-> history]

\* this.conversationHistories.set(userId, history), and a push onto the
\* array the map holds (the local variable history is that array).
SetHistory(userId, history) ==
    [k \in DOMAIN conversationHistories \cup {HistoryKey(userId)} |->
        IF k = HistoryKey(userId) THEN history ELSE conversationHistories[k]]

\* A stop() that clears the conversation histories.
HistoriesOnStopCleared == << >>

\* The histories after start() and after stop(): the two methods call
\* connect and disconnect and nothing else.
HistoriesOnStart == conversationHistories

HistoriesOnStop == conversationHistories

\* A catch block that takes the answer that was not delivered out of the
\* history again.
HistoriesOnSendFailRolledBack(t) ==
    SetHistory(t.userId,
               SelectSeq(GetOrCreate(t.userId),
                         LAMBDA m : m # AssistantMessage(t.sends[1].text)))

\* The histories when the await of sendMessage in the try block rejects: the
\* catch block logs the error and sends the apology, it does not touch the
\* history.
HistoriesOnSendFail(t) == conversationHistories

\* The invocation at its first await: generateResponse(history,
\* this.llmOptions), with the history as it is at the call.
NewTurn(userId, text, timestamp, history) ==
    [pc |-> "llm", userId |-> userId, text |-> text, timestamp |-> timestamp,
     llm |-> "pending", llmHistory |-> history, options |-> llmOptions,
     sends |-> <<>>]

\* if (llmResponseText) { ...; await sendMessage(userId, llmResponseText) }
OnLLMText(t, llmResponseText) ==
    [t EXCEPT !.pc = "send", !.llm = "text",
              !.sends = <<Call(t.userId, llmResponseText)>>]

\* An else branch that returns without sending anything.
OnLLMEmptySilent(t) == [t EXCEPT !.pc = "done", !.llm = "empty"]

\* An else branch that sends the apology instead of the no-response notice.
OnLLMEmptyApology(t) ==
    [t EXCEPT !.pc = "send", !.llm = "empty",
              !.sends = <<Call(t.userId, APOLOGY_TEXT)>>]

\* else { await sendMessage(userId, "I'm sorry, I couldn't generate ...") }
OnLLMEmpty(t) ==
    [t EXCEPT !.pc = "send", !.llm = "empty",
              !.sends = <<Call(t.userId, FALLBACK_TEXT)>>]

\* A catch block that sends the no-response notice instead of the apology.
OnLLMThrowFallback(t) ==
    [t EXCEPT !.pc = "apology", !.llm = "throw",
              !.sends = <<Call(t.userId, FALLBACK_TEXT)>>]

\* catch (error) { await sendMessage(userId, "Sorry, I encountered ...") }
\* entered from the await of generateResponse.
OnLLMThrow(t) ==
    [t EXCEPT !.pc = "apology", !.llm = "throw",
              !.sends = <<Call(t.userId, APOLOGY_TEXT)>>]

\* The await of sendMessage in the try block resolves: the function returns.
OnSendOk(t) == [t EXCEPT !.pc = "done", !.sends = SetLast(@, "ok")]

\* A failed send that is swallowed: the function returns, nothing more sent.
OnSendFailSwallowed(t) == [t EXCEPT !.pc = "done", !.sends = SetLast(@, "fail")]

\* The await of sendMessage in the try block rejects: the catch block sends
\* the apology.
OnSendFail(t) ==
    [t EXCEPT !.pc = "apology",
              !.sends = Append(SetLast(@, "fail"), Call(t.userId, APOLOGY_TEXT))]

\* The await of sendMessage in the catch block resolves: the function returns.
OnApologyOk(t) == [t EXCEPT !.pc = "done", !.sends = SetLast(@, "ok")]

\* A catch block that sends the apology once more when its send failed.
OnApologyFailRetry(t) ==
    [t EXCEPT !.pc = IF Len(t.sends) < 3 THEN "apology" ELSE "rejected",
              !.sends = IF Len(t.sends) < 3
                        THEN Append(SetLast(@, "fail"), Call(t.userId, APOLOGY_TEXT))
                        ELSE SetLast(@, "fail")]

\* The await of sendMessage in the catch block rejects: nothing catches it,
\* the promise of handleIncomingMessage rejects.
OnApologyFail(t) == [t EXCEPT !.pc = "rejected", !.sends = SetLast(@, "fail")]

\* The invocation t goes on as the record r.
Step(t, r) == turns' = (turns \ {t}) \cup {r}

TypeOK ==
    /\ adapter.kind \in AdapterKinds
    /\ adapter.onMessage \in BOOLEAN
    /\ adapter.polling \in BOOLEAN
    /\ adapter.listeners \in 0..MaxListeners
    /\ adapter.rl \in {"none", "open", "closed"}
    /\ phase \in {"Idle", "Listening", "Stopped"}
    /\ systemPrompt \in BOOLEAN
    /\ llmAdapter \in LLMAdapters
    /\ DOMAIN conversationHistories \subseteq Users
    /\ DOMAIN log = Users
    /\ overlapped \subseteq Users
    /\ DOMAIN acks \subseteq 0..MaxMessages
    /\ Len(outbox) <= MaxCalls
    /\ Len(llmCalls) <= MaxCalls
    /\ Len(attempts) <= MaxCalls
    /\ Cardinality(turns) <= MaxInFlight
    /\ \A t \in turns : /\ t.userId \in Users
                        /\ t.pc \in InFlightPcs \cup SettledPcs
                        /\ t.llm \in {"pending", "text", "empty", "throw"}
                        /\ t.timestamp \in 1..MaxMessages
                        /\ t.options = llmOptions
                        /\ Len(t.sends) <= 2

\* The state after construction: new Chatbot(messagingAdapter, llmAdapter,
\* llmOptions), not started, with the Telegram adapter and the Gemini
\* adapter; a new history is empty.
Init ==
    /\ conversationHistories = << >>
    /\ turns = {}
    /\ adapter = Construct("telegram")
    /\ phase = "Idle"
    /\ systemPrompt = FALSE
    /\ llmAdapter = "gemini"
    /\ log = [u \in Users |-> <<>>]
    /\ overlapped = {}
    /\ acks = << >>
    /\ outbox = << >>
    /\ llmCalls = << >>
    /\ attempts = << >>

\* The same, with the optional system prompt of a new history in either
\* setting.
InitSys ==
    /\ conversationHistories = << >>
    /\ turns = {}
    /\ adapter = Construct("telegram")
    /\ phase = "Idle"
    /\ systemPrompt \in BOOLEAN
    /\ llmAdapter = "gemini"
    /\ log = [u \in Users |-> <<>>]
    /\ overlapped = {}
    /\ acks = << >>
    /\ outbox = << >>
    /\ llmCalls = << >>
    /\ attempts = << >>

\* The same as Init, with the ChatGPT adapter.
InitChatGPT ==
    /\ conversationHistories = << >>
    /\ turns = {}
    /\ adapter = Construct("telegram")
    /\ phase = "Idle"
    /\ systemPrompt = FALSE
    /\ llmAdapter = "chatgpt"
    /\ log = [u \in Users |-> <<>>]
    /\ overlapped = {}
    /\ acks = << >>
    /\ outbox = << >>
    /\ llmCalls = << >>
    /\ attempts = << >>

\* The same as Init, with any of the four messaging adapters.
InitAdapters ==
    /\ conversationHistories = << >>
    /\ turns = {}
    /\ adapter \in {Construct(kind) : kind \in AdapterKinds}
    /\ phase = "Idle"
    /\ systemPrompt = FALSE
    /\ llmAdapter = "gemini"
    /\ log = [u \in Users |-> <<>>]
    /\ overlapped = {}
    /\ acks = << >>
    /\ outbox = << >>
    /\ llmCalls = << >>
    /\ attempts = << >>

\* Chatbot.start(): messagingAdapter.connect(handleIncomingMessage)
Start ==
    /\ MicrotasksDrained
    /\ TotalReceived < MaxEarly
    /\ Connect(adapter).listeners <= MaxListeners
    /\ adapter' = Connect(adapter)
    /\ phase' = "Listening"
    /\ conversationHistories' = HistoriesOnStart
    /\ UNCHANGED <<turns, systemPrompt, llmAdapter, log, overlapped, acks, outbox, llmCalls, attempts>>

\* Chatbot.stop(): messagingAdapter.disconnect()
Stop ==
    /\ MicrotasksDrained
    /\ TotalReceived < MaxEarly
    /\ adapter' = Disconnect(adapter)
    /\ phase' = "Stopped"
    /\ conversationHistories' = HistoriesOnStop
    /\ UNCHANGED <<turns, systemPrompt, llmAdapter, log, overlapped, acks, outbox, llmCalls, attempts>>

\* An inbound text message of a user: the adapter builds the payload and
\* calls handleIncomingMessage (once per listener), which runs to its first
\* await: look up or create the history, push the user entry, truncate, call
\* generateResponse.  The Twilio adapter then returns the TwiML.
Receive(userId) ==
    LET n == Deliveries(adapter)
        text == InboundText(userId, Received(userId) + 1)
        created == ~HasHistory(userId)
        before == GetOrCreate(userId)
    IN /\ MicrotasksDrained
       /\ n >= 1
       /\ userId \in PlatformUsers(adapter.kind)
       /\ TotalReceived + n <= MaxMessages
       /\ Cardinality(turns) + n <= MaxInFlight
       /\ (turns # {} \/ n > 1) => TotalReceived < MaxOverlapping
       /\ conversationHistories' = SetHistory(userId, HistoryAfter(before, text, n))
       /\ log' = [log EXCEPT ![userId] =
                     (IF created THEN before ELSE @)
                         \o [i \in 1..n |-> UserMessage(text)]]
       /\ turns' = turns \cup
                     {NewTurn(userId, text, TotalReceived + i,
                              HistoryAfter(before, text, i)) : i \in 1..n}
       /\ overlapped' = IF Pending(userId) # {} \/ n > 1
                        THEN overlapped \cup {userId}
                        ELSE overlapped
       /\ acks' = IF adapter.kind = "twilio"
                  THEN (TotalReceived + 1 :> WebhookResponse(TRUE)) @@ acks
                  ELSE acks
       /\ UNCHANGED <<adapter, phase, systemPrompt, llmAdapter, outbox, llmCalls, attempts>>

\* A webhook request that reaches the Twilio adapter while no callback is
\* set: the request is logged and answered (request 0 stands for all of
\* them), no callback runs.
WebhookIgnored ==
    /\ MicrotasksDrained
    /\ adapter.kind = "twilio"
    /\ ~adapter.onMessage
    /\ 0 \notin DOMAIN acks
    /\ acks' = (0 :> WebhookResponse(FALSE)) @@ acks
    /\ UNCHANGED <<conversationHistories, turns, adapter, phase, systemPrompt,
                   llmAdapter, log, overlapped, outbox, llmCalls, attempts>>

\* generateResponse resolves with text: a non-empty text is pushed as the
\* assistant entry and sent; for "" the fallback notice is sent.
LLMReturn(t) ==
    /\ MicrotasksDrained
    /\ LLMSettles(t)
    /\ \E llmResponseText \in Completions(t.text) :
         IF Truthy(llmResponseText)
         THEN /\ conversationHistories' =
                    SetHistory(t.userId,
                               PushAssistant(GetOrCreate(t.userId), llmResponseText))
              /\ log' = [log EXCEPT ![t.userId] =
                            Append(@, AssistantMessage(llmResponseText))]
              /\ Step(t, OnLLMText(t, llmResponseText))
         ELSE /\ Step(t, OnLLMEmpty(t))
              /\ UNCHANGED <<conversationHistories, log>>
    /\ UNCHANGED <<adapter, phase, systemPrompt, llmAdapter, overlapped, acks, outbox, llmCalls, attempts>>

\* generateResponse rejects: the catch block sends the apology.
LLMThrow(t) ==
    /\ MicrotasksDrained
    /\ LLMSettles(t)
    /\ Step(t, OnLLMThrow(t))
    /\ UNCHANGED <<conversationHistories, adapter, phase, systemPrompt, llmAdapter,
                   log, overlapped, acks, outbox, llmCalls, attempts>>

\* sendMessage of the answer or of the fallback notice resolves.
SendReturn(t) ==
    /\ MicrotasksDrained
    /\ t.pc = "send"
    /\ \E transport \in Transports(adapter.kind) :
          SendMessage(adapter.kind, t.userId, transport) = "ok"
    /\ Step(t, OnSendOk(t))
    /\ UNCHANGED <<conversationHistories, adapter, phase, systemPrompt, llmAdapter,
                   log, overlapped, acks, outbox, llmCalls, attempts>>

\* sendMessage of the answer or of the fallback notice rejects.
SendThrow(t) ==
    /\ MicrotasksDrained
    /\ t.pc = "send"
    /\ \E transport \in Transports(adapter.kind) :
          SendMessage(adapter.kind, t.userId, transport) = "fail"
    /\ Step(t, OnSendFail(t))
    /\ conversationHistories' = HistoriesOnSendFail(t)
    /\ UNCHANGED <<adapter, phase, systemPrompt, llmAdapter,
                   log, overlapped, acks, outbox, llmCalls, attempts>>

\* sendMessage of the apology resolves.
ApologyReturn(t) ==
    /\ MicrotasksDrained
    /\ t.pc = "apology"
    /\ \E transport \in Transports(adapter.kind) :
          SendMessage(adapter.kind, t.userId, transport) = "ok"
    /\ Step(t, OnApologyOk(t))
    /\ UNCHANGED <<conversationHistories, adapter, phase, systemPrompt, llmAdapter,
                   log, overlapped, acks, outbox, llmCalls, attempts>>

\* sendMessage of the apology rejects.
ApologyThrow(t) ==
    /\ MicrotasksDrained
    /\ t.pc = "apology"
    /\ \E transport \in Transports(adapter.kind) :
          SendMessage(adapter.kind, t.userId, transport) = "fail"
    /\ Step(t, OnApologyFail(t))
    /\ UNCHANGED <<conversationHistories, adapter, phase, systemPrompt, llmAdapter,
                   log, overlapped, acks, outbox, llmCalls, attempts>>

\* The adapter's continuation after the callback's promise settles: a
\* rejection is caught and logged, and the invocation is over.
Settle(t) ==
    /\ t.pc \in SettledPcs
    /\ turns' = turns \ {t}
    /\ adapter' = IF t.pc = "rejected" THEN OnRejection(adapter) ELSE adapter
    /\ UNCHANGED <<conversationHistories, phase, systemPrompt, llmAdapter,
                   log, overlapped, acks, outbox, llmCalls, attempts>>

Next ==
    \/ Start
    \/ Stop
    \/ \E userId \in Users : Receive(userId)
    \/ \E t \in turns : LLMReturn(t)
    \/ \E t \in turns : LLMThrow(t)
    \/ \E t \in turns : SendReturn(t)
    \/ \E t \in turns : SendThrow(t)
    \/ \E t \in turns : ApologyReturn(t)
    \/ \E t \in turns : ApologyThrow(t)
    \/ \E t \in turns : Settle(t)

\* The program as it is, with the Telegram and Gemini adapters: a new
\* history is empty.
Spec == Init /\ [][Next]_vars

\* The program with the system prompt of a new history in either setting.
SpecSys == InitSys /\ [][Next]_vars

\* The program with the ChatGPT adapter.
SpecChatGPT == InitChatGPT /\ [][Next]_vars

\* The program with any of the messaging adapters; with the Twilio adapter
\* webhook requests also arrive while no callback is set.
NextAdapters ==
    \/ Next
    \/ WebhookIgnored

SpecAdapters == InitAdapters /\ [][NextAdapters]_vars

\* ------------------------------------------------- sendMessage by itself
\* A call of the adapter's sendMessage with a recipient and a state of the
\* transport: what the platform did with the send and how the call ended.
AdapterSend(userId, transport) ==
    /\ Len(outbox) < MaxCalls
    /\ outbox' = Append(outbox,
                        [to |-> userId,
                         rejected |-> PlatformRejects(adapter.kind, userId, transport),
                         result |-> SendMessage(adapter.kind, userId, transport)])
    /\ UNCHANGED <<conversationHistories, turns, adapter, phase, systemPrompt,
                   llmAdapter, log, overlapped, acks, llmCalls, attempts>>

NextSend ==
    \E userId \in Recipients : \E transport \in Transports(adapter.kind) :
        AdapterSend(userId, transport)

\* The adapters' sendMessage called with any recipient.
SpecSend == InitAdapters /\ [][NextSend]_vars

\* --------------------------------------------- generateResponse by itself
\* The state after construction with either LLM adapter.
InitLLM ==
    /\ conversationHistories = << >>
    /\ turns = {}
    /\ adapter = Construct("telegram")
    /\ phase = "Idle"
    /\ systemPrompt = FALSE
    /\ llmAdapter \in LLMAdapters
    /\ log = [u \in Users |-> <<>>]
    /\ overlapped = {}
    /\ acks = << >>
    /\ outbox = << >>
    /\ llmCalls = << >>
    /\ attempts = << >>

\* A call of the LLM adapter's generateResponse, with the way the provider
\* call ends: the response and what generateResponse did with it.
LLMCall(response) ==
    /\ Len(llmCalls) < MaxCalls
    /\ llmCalls' = Append(llmCalls,
                          [response |-> response,
                           outcome |-> Generate(llmAdapter, response)])
    /\ UNCHANGED <<conversationHistories, turns, adapter, phase, systemPrompt,
                   llmAdapter, log, overlapped, acks, outbox, attempts>>

NextLLM == \E response \in ProviderResponses("A1") : LLMCall(response)

\* The LLM adapters' generateResponse called with any response of the
\* provider.
SpecLLM == InitLLM /\ [][NextLLM]_vars

\* ------------------------------------------------ constructors by themselves
\* new TelegramAdapter / new TwilioWhatsAppAdapter with credentials given or
\* not.
Attempt(kind, credentials) ==
    /\ Len(attempts) < MaxCalls
    /\ attempts' = Append(attempts,
                          [kind |-> kind, credentials |-> credentials,
                           result |-> ConstructWith(kind, credentials)])
    /\ UNCHANGED <<conversationHistories, turns, adapter, phase, systemPrompt,
                   llmAdapter, log, overlapped, acks, outbox, llmCalls>>

NextConstruct ==
    \E kind \in AdapterKinds :
        \E credentials \in [RequiredCredentials(kind) -> CredentialValues] :
            Attempt(kind, credentials)

\* The constructors of the messaging adapters called with any credentials.
SpecConstruct == Init /\ [][NextConstruct]_vars

\* ------------------------------------------------ every call settles
\* An inbound message whose invocations are among the first MaxLive.
ReceiveEarly(userId) ==
    /\ TotalReceived + Deliveries(adapter) <= MaxLive
    /\ Receive(userId)

\* A step of the invocation t: a call it awaits settles and its
\* continuation runs, or the adapter sees its promise settled.
TurnStep(t) ==
    \/ LLMReturn(t)
    \/ LLMThrow(t)
    \/ SendReturn(t)
    \/ SendThrow(t)
    \/ ApologyReturn(t)
    \/ ApologyThrow(t)
    \/ Settle(t)

NextFair ==
    \/ Start
    \/ Stop
    \/ \E userId \in Users : ReceiveEarly(userId)
    \/ \E t \in turns : LLMReturn(t)
    \/ \E t \in turns : LLMThrow(t)
    \/ \E t \in turns : SendReturn(t)
    \/ \E t \in turns : SendThrow(t)
    \/ \E t \in turns : ApologyReturn(t)
    \/ \E t \in turns : ApologyThrow(t)
    \/ \E t \in turns : Settle(t)

\* Every generateResponse call and every sendMessage call eventually returns
\* or throws, and the event loop runs the continuation.
Fairness ==
    \A k \in 1..MaxMessages :
        WF_vars(\E t \in turns : t.timestamp = k /\ TurnStep(t))

SpecFair == Init /\ [][NextFair]_vars /\ Fairness

\* --------------------------------------------- a call that never settles
\* The invocations of the users other than A.
Others == {t \in turns : t.userId # "A"}

\* The generateResponse calls of user A never return: the invocations of A
\* stay at their first await.
NextHang ==
    \/ Start
    \/ Stop
    \/ \E userId \in Users : ReceiveEarly(userId)
    \/ \E t \in Others : LLMReturn(t)
    \/ \E t \in Others : LLMThrow(t)
    \/ \E t \in Others : SendReturn(t)
    \/ \E t \in Others : SendThrow(t)
    \/ \E t \in Others : ApologyReturn(t)
    \/ \E t \in Others : ApologyThrow(t)
    \/ \E t \in Others : Settle(t)

\* The calls of the invocations of B eventually return or throw.
FairnessHang ==
    \A k \in 1..MaxMessages :
        WF_vars(\E t \in Others : t.timestamp = k /\ TurnStep(t))

SpecHang == Init /\ [][NextHang]_vars /\ FairnessHang

\* ------------------------------------------------------------- properties
Range(f) == {f[i] : i \in DOMAIN f}

\* The entries of the log that are no longer in the stored history.
Evicted(userId) ==
    IF userId \in DOMAIN conversationHistories
    THEN Len(log[userId]) - Len(conversationHistories[userId])
    ELSE 0

\* Every invocation of the user is over (its promise has settled).
TurnsCompleted(userId) == Pending(userId) = {}

\* C1: for a user whose turns were processed one after another, the history
\* stored after each completed turn has at most maxHistoryLength entries.
C1_HistoryWithinCap ==
    \A u \in DOMAIN conversationHistories :
        (u \notin overlapped /\ TurnsCompleted(u))
            => Len(conversationHistories[u]) <= maxHistoryLength

\* An optional leading system entry, then user and assistant entries in
\* turn, a user entry first.
Alternating(history) ==
    LET off == SystemPromptOffset(history) IN
    \A i \in (off + 1)..Len(history) :
        history[i].role = (IF (i - off) % 2 = 1 THEN "user" ELSE "assistant")

\* C2: in every reachable state every stored history is at most one leading
\* system entry followed by strictly alternating user/assistant entries.
C2_HistoryAlternates ==
    \A u \in DOMAIN conversationHistories : Alternating(conversationHistories[u])

\* C3: a history created with a leading system entry keeps that entry as its
\* first entry through every truncation.
C3_SystemEntryKept ==
    \A u \in DOMAIN conversationHistories :
        (Len(log[u]) > 0 /\ log[u][1].role = "system")
            => /\ Len(conversationHistories[u]) > 0
               /\ conversationHistories[u][1] = log[u][1]

\* A truncation has evicted entries of a history that leads with the system
\* prompt.
C3_Witness ==
    \E u \in DOMAIN conversationHistories :
        /\ log[u][1].role = "system"
        /\ Evicted(u) >= 2
        /\ conversationHistories[u][1].role = "system"

\* kept is full without its oldest non-system entries, in the same order.
OldestDropped(full, kept) ==
    LET off == SystemPromptOffset(full)
        n == Len(full) - Len(kept)
    IN /\ n >= 0
       /\ off + n <= Len(full)
       /\ kept = SubSeq(full, 1, off) \o SubSeq(full, off + n + 1, Len(full))

\* C4: the stored history is the sequence of all entries appended so far (the
\* history before a turn followed by the entries the turn appends) with
\* only the oldest non-system entries missing, the others in their order.
C4_OrderPreserved ==
    \A u \in DOMAIN conversationHistories :
        OldestDropped(log[u], conversationHistories[u])

\* A truncation has evicted an entry and the turn went on to append its
\* assistant entry.
C4_Witness ==
    \E t \in turns :
        /\ t.llm = "text"
        /\ Evicted(t.userId) >= 1
        /\ Len(t.llmHistory) = maxHistoryLength

\* The users whose invocation takes the step.
Acting == {r.userId : r \in (turns \ turns') \cup (turns' \ turns)}

\* C5: a step of an invocation of one user leaves the stored history of
\* every other user as it is (the key and the entries).
C5_HistoriesIndependent ==
    [][\A u \in Acting : \A v \in Users \ {u} :
          /\ (v \in DOMAIN conversationHistories') = (v \in DOMAIN conversationHistories)
          /\ v \in DOMAIN conversationHistories
                => conversationHistories'[v] = conversationHistories[v]]_vars

\* Invocations of both users are in flight and both have a stored history.
C5_Witness ==
    /\ Pending("A") # {}
    /\ Pending("B") # {}
    /\ \E t \in Pending("A") : t.pc = "send"
    /\ \E t \in Pending("B") : t.pc = "apology"

\* C6: a message of a user that arrives while an earlier turn of that user
\* awaits the LLM or sendMessage is handled (its user entry pushed, its LLM
\* call made) only after the earlier turn is over.
C6_SameUserFIFO ==
    \A t1 \in turns : \A t2 \in turns :
        (t1.userId = t2.userId /\ t1.timestamp < t2.timestamp)
            => t1.pc \notin InFlightPcs

\* The k-th turn of the user got a completion that was pushed to its history.
Replied(userId, k) ==
    AssistantMessage(CompletionText(InboundText(userId, k))) \in Range(log[userId])

\* The history of the user after its first k turns, processed alone and one
\* after another, each with the outcome it had.
RECURSIVE AloneHistory(_, _)
AloneHistory(userId, k) ==
    IF k = 0 THEN NewHistory
    ELSE LET text == InboundText(userId, k)
             history == PushUser(AloneHistory(userId, k - 1), text)
         IN IF Replied(userId, k)
            THEN PushAssistant(history, CompletionText(text))
            ELSE history

\* C7: when the turns of a user arrive one after another, interleaved in any
\* way with the turns of the other user, the history of the user once its
\* turns are over is the one it has when its turns are processed alone.
C7_InterleavingInvisible ==
    \A u \in DOMAIN conversationHistories :
        (u \notin overlapped /\ TurnsCompleted(u))
            => conversationHistories[u] = AloneHistory(u, Received(u))

\* A second turn of a user has just ended while a turn of the other user,
\* begun earlier, is still in flight.
C7_Witness ==
    \E t1 \in turns : \E t2 \in turns :
        /\ t1.pc = "done" /\ t1.llm = "text"
        /\ t1.userId \notin overlapped
        /\ Received(t1.userId) >= 2
        /\ t2.userId # t1.userId
        /\ t2.pc \in InFlightPcs
        /\ t2.timestamp < t1.timestamp

\* The sendMessage calls of the invocation that delivered their message.
Delivered(t) == {i \in 1..Len(t.sends) : t.sends[i].result = "ok"}

\* The texts handleIncomingMessage may send for the invocation.
OutboundTexts(t) == {CompletionText(t.text), FALLBACK_TEXT, APOLOGY_TEXT}

\* C8 as claimed: every turn, on every path, ends with exactly one outbound
\* message delivered to the user.
C8_ExactlyOneOutbound ==
    \A t \in turns : t.pc \in SettledPcs => Cardinality(Delivered(t)) = 1

\* C8 as amended: a turn that returns normally has delivered exactly one
\* message (the answer, the no-response notice or the apology), to its own
\* user; a turn whose apology could not be sent has delivered none; no turn
\* calls sendMessage more than twice.
C8_AtMostOneOutbound ==
    \A t \in turns :
        /\ Len(t.sends) <= 2
        /\ \A i \in 1..Len(t.sends) :
              t.sends[i].to = t.userId /\ t.sends[i].text \in OutboundTexts(t)
        /\ t.pc = "done" => Cardinality(Delivered(t)) = 1
        /\ t.pc = "rejected" => Delivered(t) = {}
        /\ t.pc \in InFlightPcs => Delivered(t) = {}

\* A turn has ended after sendMessage failed for the answer and succeeded
\* for the apology.
C8_Witness ==
    \E t \in turns :
        /\ t.pc = "done"
        /\ Len(t.sends) = 2
        /\ t.sends[1].result = "fail"
        /\ t.sends[2] = [to |-> t.userId, text |-> APOLOGY_TEXT, result |-> "ok"]

\* C9: no error escapes handleIncomingMessage: its promise never rejects.
C9_NoErrorEscapes == \A t \in turns : t.pc # "rejected"

\* The invocation's message started this invocation only (one listener).
DeliveredOnce(t) ==
    Cardinality({i \in 1..Len(log[t.userId]) :
                    log[t.userId][i] = UserMessage(t.text)}) = 1

\* C10: once generateResponse has thrown in a turn, the turn has called
\* sendMessage exactly once, with its user's id and the apology, no
\* assistant entry has been pushed for its message, and (the turns of the
\* user being one after another) the user's history is still the one passed
\* to the LLM call.
C10_LLMFailure ==
    \A t \in turns :
        t.llm = "throw"
            => /\ t.sends \in {<<[to |-> t.userId, text |-> APOLOGY_TEXT, result |-> r]>> :
                                  r \in {"pending", "ok", "fail"}}
               /\ DeliveredOnce(t) =>
                     ~\E i \in 1..Len(log[t.userId]) :
                         /\ log[t.userId][i].role = "assistant"
                         /\ log[t.userId][i].content = CompletionText(t.text)
               /\ t.userId \notin overlapped
                     => conversationHistories[t.userId] = t.llmHistory

\* A turn in which generateResponse threw is over, in a history that holds
\* earlier entries.
C10_Witness ==
    \E t \in turns :
        /\ t.llm = "throw"
        /\ t.pc = "done"
        /\ t.userId \notin overlapped
        /\ Len(t.llmHistory) >= 3

\* C11: once generateResponse has returned the empty string in a turn, the
\* turn's first sendMessage call is to its user with the fixed no-response
\* notice (neither the apology nor an empty text), no assistant entry has
\* been appended for its message, and (the turns of the user being one after
\* another) the user's history is still the one passed to the LLM call.
C11_EmptyCompletion ==
    \A t \in turns :
        t.llm = "empty"
            => /\ Len(t.sends) >= 1
               /\ t.sends[1].to = t.userId
               /\ t.sends[1].text = FALLBACK_TEXT
               /\ t.sends[1].text \notin {APOLOGY_TEXT, ""}
               /\ ~\E i \in 1..Len(log[t.userId]) :
                      /\ log[t.userId][i].role = "assistant"
                      /\ log[t.userId][i].content = ""
               /\ DeliveredOnce(t) =>
                     ~\E i \in 1..Len(log[t.userId]) :
                         /\ log[t.userId][i].role = "assistant"
                         /\ log[t.userId][i].content = CompletionText(t.text)
               /\ t.userId \notin overlapped
                     => conversationHistories[t.userId] = t.llmHistory

\* A turn in which generateResponse returned "" is over, the notice sent, in
\* a history that holds an earlier answered turn.
C11_Witness ==
    \E t \in turns :
        /\ t.llm = "empty"
        /\ t.pc = "done"
        /\ t.sends = <<[to |-> t.userId, text |-> FALLBACK_TEXT, result |-> "ok"]>>
        /\ t.userId \notin overlapped
        /\ Len(t.llmHistory) >= 3

\* C12: no stored history holds an assistant entry whose content is empty or
\* white space only (a blank completion is treated like an empty one).
C12_NoBlankAssistantEntry ==
    \A u \in DOMAIN conversationHistories :
        \A i \in 1..Len(conversationHistories[u]) :
            conversationHistories[u][i].role = "assistant"
                => Trim(conversationHistories[u][i].content) # ""

\* Every message of the user so far got a completion that was pushed.
AllAnswered(userId) == \A k \in 1..Received(userId) : Replied(userId, k)

\* user_1, assistant_1, ..., user_n, assistant_n of a user.
ExpectedHistory(userId, n) ==
    [i \in 1..(2 * n) |->
        IF i % 2 = 1
        THEN UserMessage(InboundText(userId, (i + 1) \div 2))
        ELSE AssistantMessage(CompletionText(InboundText(userId, i \div 2)))]

\* C13: after N turns of a user, one after another, each answered with a
\* non-empty completion, and 2N within the cap, the user's history is
\* exactly user_1, assistant_1, ..., user_N, assistant_N.
C13_RoundTrip ==
    \A u \in DOMAIN conversationHistories :
        (/\ u \notin overlapped
         /\ TurnsCompleted(u)
         /\ AllAnswered(u)
         /\ 2 * Received(u) <= maxHistoryLength)
            => conversationHistories[u] = ExpectedHistory(u, Received(u))

\* Three turns of a user, each answered, are over.
C13_Witness ==
    \E u \in DOMAIN conversationHistories :
        /\ u \notin overlapped
        /\ TurnsCompleted(u)
        /\ AllAnswered(u)
        /\ Received(u) = 3
        /\ Len(conversationHistories[u]) = 6

\* C14: when every turn of a user is answered, one after another, the
\* history after each turn has at most maxHistoryLength entries and its
\* first entry after the system prompt is a user entry (eviction removes
\* whole user/assistant pairs).
C14_PairEviction ==
    \A u \in DOMAIN conversationHistories :
        (u \notin overlapped /\ TurnsCompleted(u) /\ AllAnswered(u))
            => LET history == conversationHistories[u]
                   off == SystemPromptOffset(history)
               IN /\ Len(history) <= maxHistoryLength
                  /\ Len(history) > off => history[off + 1].role = "user"

\* C15: a stop() while the core is not Listening (never started, or stopped
\* already) changes nothing in the adapter.
C15_StopIdempotent ==
    [][(phase # "Listening" /\ phase' = "Stopped") => adapter' = adapter]_vars

\* The adapters of which a start() is to deliver the inbound messages.
Delivering == {"console", "telegram", "twilio"}

\* C16: whenever the last call was start(), after a stop() or not, an
\* inbound message of the platform is delivered to handleIncomingMessage.
C16_RestartListens ==
    (phase = "Listening" /\ adapter.kind \in Delivering)
        => Deliveries(adapter) >= 1

\* C17: a step that is a start() or a stop() leaves the histories as they
\* are, and a step that changes the history of a user is a step of an
\* invocation of handleIncomingMessage of that user.
C17_StartStopKeepHistories ==
    [][/\ (phase' # phase \/ adapter' # adapter)
            => conversationHistories' = conversationHistories
       /\ \A u \in Users :
            (\/ (u \in DOMAIN conversationHistories') # (u \in DOMAIN conversationHistories)
             \/ /\ u \in DOMAIN conversationHistories
                /\ conversationHistories'[u] # conversationHistories[u])
                => u \in Acting]_vars

\* stop() has been called with an answered turn in a history, and the
\* history is there.
C17_Witness ==
    /\ phase = "Stopped"
    /\ turns = {}
    /\ \E u \in DOMAIN conversationHistories :
          /\ Len(conversationHistories[u]) = 2
          /\ conversationHistories[u] = log[u]

\* C18 as claimed: after a sendMessage call of a turn has failed the turn
\* makes no further sendMessage call.
C18_FireOnce ==
    \A t \in turns :
        \A i \in 1..Len(t.sends) :
            t.sends[i].result = "fail" => i = Len(t.sends)

\* C18 as amended: no send is repeated.  After the send of the answer or of
\* the no-response notice has failed the turn makes one more call, the
\* apology; after the send of the apology has failed it makes none and the
\* invocation rejects.
C18_NoRetry ==
    \A t \in turns :
        /\ Len(t.sends) <= 2
        /\ Len(t.sends) = 2
              => /\ t.sends[1].result = "fail"
                 /\ t.sends[1].text # APOLOGY_TEXT
                 /\ t.sends[2].text = APOLOGY_TEXT
        /\ \A i \in 1..Len(t.sends) :
              (t.sends[i].text = APOLOGY_TEXT /\ t.sends[i].result = "fail")
                  => i = Len(t.sends) /\ t.pc = "rejected"
        /\ \A i \in 1..Len(t.sends) :
              (t.sends[i].text # APOLOGY_TEXT /\ t.sends[i].result = "fail")
                  => Len(t.sends) = i + 1

\* The send of the answer failed and then the send of the apology failed.
C18_Witness ==
    \E t \in turns :
        /\ t.pc = "rejected"
        /\ Len(t.sends) = 2
        /\ t.sends[1].result = "fail"
        /\ t.sends[2].result = "fail"

\* C19: with the Twilio adapter every webhook request has been answered with
\* the empty TwiML document: the request of every invocation, wherever the
\* invocation stands (awaiting the LLM, rejected), and the requests that
\* arrived with no callback set, which started no invocation.
C19_WebhookAcknowledged ==
    adapter.kind = "twilio"
        => /\ \A t \in turns :
                 /\ t.timestamp \in DOMAIN acks
                 /\ acks[t.timestamp] = EMPTY_TWIML
           /\ \A r \in DOMAIN acks : acks[r] = EMPTY_TWIML
           /\ DOMAIN acks \ {0} = 1..TotalReceived

\* A request was answered with no callback set, and the request of an
\* invocation that still awaits the LLM has been answered.
C19_Witness ==
    /\ adapter.kind = "twilio"
    /\ 0 \in DOMAIN acks
    /\ \E t \in turns : t.pc = "llm" /\ t.timestamp \in DOMAIN acks

\* C20: a send the platform rejects (unknown recipient, transport failure)
\* makes sendMessage fail, with every adapter.
C20_RejectedSendFails ==
    \A i \in 1..Len(outbox) :
        outbox[i].rejected => outbox[i].result = "fail"

\* C21: generateResponse throws whenever the provider call cannot complete,
\* an answer without candidate / choice text included: it returns no
\* string then.
C21_UnusableResponseThrows ==
    \A i \in 1..Len(llmCalls) :
        llmCalls[i].response.kind \in {"error", "noText"}
            => llmCalls[i].outcome.threw

C24_OneInvocationPerMessage ==
    [][phase = "Listening"
          => /\ Cardinality(turns' \ turns) <= 1
             /\ \A u \in Users : Received(u)' <= Received(u) + 1]_vars

\* C25: whatever the interleaving of the invocations, the history an
\* invocation passes to generateResponse has at most maxHistoryLength
\* entries and ends with the user entry of the message the invocation
\* handles, and the options it passes are the LLMOptions of the
\* construction.
C25_LLMCallArguments ==
    \A t \in turns :
        /\ Len(t.llmHistory) <= maxHistoryLength
        /\ Len(t.llmHistory) >= 1
        /\ t.llmHistory[Len(t.llmHistory)] = UserMessage(t.text)
        /\ t.options = llmOptions

\* generateResponse is being awaited with a history that was cut to
\* maxHistoryLength entries, for a user whose invocations have overlapped.
C25_Witness ==
    \E t \in turns :
        /\ t.pc = "llm"
        /\ t.userId \in overlapped
        /\ Len(t.llmHistory) = maxHistoryLength
        /\ Len(log[t.userId]) > maxHistoryLength
        /\ t.llmHistory[1] # log[t.userId][1]

\* C26: an invocation whose generateResponse returned a non-empty text has
\* called sendMessage first with the userId of its message and exactly that
\* text, and from the moment of that call the assistant entry with the text
\* is in the history of that user; where no other invocation of the user
\* has run meanwhile, the history during the send is the history passed to
\* generateResponse (user entry appended, truncated) followed by the
\* assistant entry.
C26_AppendThenSend ==
    \A t \in turns :
        t.llm = "text"
            => /\ Len(t.sends) >= 1
               /\ t.sends[1].to = t.userId
               /\ t.sends[1].text = CompletionText(t.text)
               /\ AssistantMessage(t.sends[1].text) \in Range(log[t.userId])
               /\ (t.pc = "send" /\ t.userId \notin overlapped)
                    => /\ HasHistory(t.userId)
                       /\ conversationHistories[t.userId] =
                            Append(t.llmHistory, AssistantMessage(t.sends[1].text))

\* The send of a generated answer is being awaited in the third turn of a
\* user, with the assistant entry already last in the history.
C26_Witness ==
    \E t \in turns :
        /\ t.pc = "send"
        /\ t.llm = "text"
        /\ t.userId \notin overlapped
        /\ t.sends = <<Call(t.userId, CompletionText(t.text))>>
        /\ Len(t.llmHistory) = 5
        /\ conversationHistories[t.userId][6] = AssistantMessage(CompletionText(t.text))

\* C27: from the return of stop() to the next start() the core is
\* quiescent: no step taken while Stopped modifies a history or makes a
\* sendMessage call, whatever the invocations were awaiting when stop() was
\* called.
C27_QuiescentAfterStop ==
    [][(phase = "Stopped" /\ phase' = "Stopped")
          => /\ conversationHistories' = conversationHistories
             /\ \A t \in turns : \A r \in turns' :
                    r.timestamp = t.timestamp => Len(r.sends) = Len(t.sends)]_vars

\* C28: when the promise of an invocation rejects, the adapter catches the
\* rejection: the step that ends the invocation leaves the adapter, its
\* callback and its listeners as they were and the core in its phase, so
\* that the adapter delivers the next inbound message as it would have
\* before.
C28_RejectionCaught ==
    [][\A t \in turns :
          (t.pc = "rejected" /\ t \notin turns')
              => /\ adapter' = adapter
                 /\ phase' = phase
                 /\ Deliveries(adapter') = Deliveries(adapter)]_vars

\* The apology send of an invocation has failed and its promise is rejected
\* while the core is Listening on an adapter that delivers, with messages
\* still to come.
C28_Witness ==
    /\ phase = "Listening"
    /\ adapter.kind \in Delivering
    /\ Deliveries(adapter) >= 1
    /\ TotalReceived < MaxMessages
    /\ \E t \in turns :
          /\ t.pc = "rejected"
          /\ t.sends[Len(t.sends)] =
                [to |-> t.userId, text |-> APOLOGY_TEXT, result |-> "fail"]

\* C30: a delivery failure does not roll the history back: no step an
\* invocation takes after generateResponse has returned (its send failing,
\* the apology, its end) changes a history, so the assistant entry of an
\* answer that was not delivered stays; and the history passed to the
\* user's next generateResponse call begins with the stored history (while
\* that is below maxHistoryLength), this entry included.
C30_NoRollback ==
    [][/\ \A t \in turns :
            (t.llm # "pending" /\ t \notin turns')
                => conversationHistories' = conversationHistories
       /\ \A r \in turns' \ turns :
            (r.pc = "llm" /\ HasHistory(r.userId)
                /\ Len(conversationHistories[r.userId]) < maxHistoryLength)
                => /\ SubSeq(r.llmHistory, 1, Len(conversationHistories[r.userId]))
                        = conversationHistories[r.userId]
                   /\ \A t \in Pending(r.userId) :
                        (t.llm = "text" /\ t.sends[1].result = "fail")
                            => AssistantMessage(t.sends[1].text)
                                    \in Range(r.llmHistory)]_vars

\* The send of a generated answer has failed, and the next message of the
\* user has its generateResponse call awaited with the undelivered answer in
\* the history passed.
C30_Witness ==
    \E t \in turns : \E r \in turns :
        /\ t.llm = "text"
        /\ t.pc = "apology"
        /\ t.sends[1].result = "fail"
        /\ r.userId = t.userId
        /\ r.pc = "llm"
        /\ r.timestamp > t.timestamp
        /\ conversationHistories[t.userId] = r.llmHistory
        /\ r.llmHistory = <<UserMessage(t.text), AssistantMessage(t.sends[1].text),
                            UserMessage(r.text)>>

\* The invocation that began k-th awaits its generateResponse call.
Begun(k) == \E t \in turns : t.timestamp = k /\ t.pc = "llm"

\* The invocation that began k-th has completed, having made a sendMessage
\* call, all its calls to the user of its message; if it returned, one of
\* them delivered.
Acknowledged(k) ==
    \E t \in turns :
        /\ t.timestamp = k
        /\ t.pc \in SettledPcs
        /\ Len(t.sends) >= 1
        /\ \A i \in 1..Len(t.sends) : t.sends[i].to = t.userId
        /\ t.pc = "done" => Delivered(t) # {}

\* C23: while the generateResponse calls of user A never return, every
\* invocation for a message of user B runs to its end once B's own calls
\* settle: a sendMessage call to B has been made, and B has its reply
\* unless B's own sends failed.
C23_HangBlocksOnlyOwnTurn ==
    \A k \in 1..MaxMessages :
        (Begun(k) /\ \E t \in Others : t.timestamp = k)
            ~> (Acknowledged(k) /\ \E t \in Others : t.timestamp = k)

\* An invocation of B has returned with its reply delivered while an earlier
\* invocation of A still awaits generateResponse.
C23_Witness ==
    \E a \in turns : \E b \in turns :
        /\ a.userId = "A"
        /\ a.pc = "llm"
        /\ b.userId = "B"
        /\ b.timestamp > a.timestamp
        /\ b.pc = "done"
        /\ b.llm = "text"
        /\ Delivered(b) = {1}

\* C29: if every generateResponse call and every sendMessage call
\* eventually returns or throws, every invocation of handleIncomingMessage
\* eventually completes, and by then it has made at least one sendMessage
\* call to the user who sent the message.
C29_TurnAcknowledged ==
    \A k \in 1..MaxMessages : Begun(k) ~> Acknowledged(k)

\* An invocation has completed by rejecting, both its answer and its apology
\* having been sent to the user and failed.
C29_Witness ==
    \E t \in turns :
        /\ t.pc = "rejected"
        /\ t.llm = "text"
        /\ Len(t.sends) = 2
        /\ \A i \in 1..2 : t.sends[i].to = t.userId /\ t.sends[i].result = "fail"

====
